---- MODULE Spec2Model ----
(***************************************************************************)
(* Authentication core of the patient service: password hashing and        *)
(* verification (app/utils/security.py over passlib/bcrypt), signed access  *)
(* tokens (app/utils/security.py over python-jose), and the requests that   *)
(* use them: signup and login (app/routers/auth.py), the resolution of the  *)
(* bearer token to a user (app/core/dependencies.py) and the patient        *)
(* profile routes (app/routers/patients.py over app/crud.py).               *)
(***************************************************************************)
EXTENDS Integers, Sequences, FiniteSets, TLC

VARIABLES hashed, verified, now, settings, held, decoded,
          users, patients, reqs, resp

vars == <<hashed, verified, now, settings, held, decoded,
          users, patients, reqs, resp>>

\* the database rows, the requests in progress and the last response
store == <<users, patients, reqs, resp>>

(***************************************************************************)
(* Passwords.  A secret is described by what bcrypt can see of it: `head`   *)
(* is its first 72 bytes, `tail` the bytes after them ("" when it has at    *)
(* most 72 bytes), `nul` whether it contains a NUL byte.                    *)
(***************************************************************************)
Heads == {"pw-a", "seventy-two-bytes"}

FullHeads == {"seventy-two-bytes"}

Tails == {"", "x", "y"}

Secrets == {s \in [head : Heads, tail : Tails, nul : BOOLEAN] :
              /\ s.tail # "" => s.head \in FullHeads
              /\ s.nul => s.head \notin FullHeads}

NoSecret == [head |-> "", tail |-> "", nul |-> FALSE]

Salts == {"salt1", "salt2"}

Costs == {"current", "weaker"}

\* the bcrypt digest: bcrypt reads at most 72 bytes of the secret
BcryptDigest(secret, salt, cost) ==
    [head |-> secret.head, salt |-> salt, cost |-> cost]

NoDigest == [head |-> "", salt |-> "", cost |-> ""]

\* a modular-crypt bcrypt string: $2b$<cost>$<salt><digest>
BcryptString(cost, salt, digest) ==
    [scheme |-> "bcrypt", cost |-> cost, salt |-> salt, digest |-> digest,
     plain |-> NoSecret]

\* the stored format of the scheme being migrated away from ("LEGACY:" + plain)
LegacyString(secret) ==
    [scheme |-> "legacy", cost |-> "", salt |-> "", digest |-> NoDigest,
     plain |-> secret]

\* a stored value no scheme recognises
Malformed ==
    [scheme |-> "unknown", cost |-> "", salt |-> "", digest |-> NoDigest,
     plain |-> NoSecret]

\* the bcrypt strings: the digest of some secret under the string's own salt
\* and cost, or a digest that is no secret's
StoredValues ==
    {BcryptString(c, sl, [head |-> h, salt |-> sl, cost |-> c]) :
        c \in Costs, sl \in Salts, h \in Heads \cup {"no-secret"}}
    \cup {LegacyString(s) : s \in Secrets}
    \cup {Malformed}

\* pwd_context.hash: a fresh salt, the current cost; passlib refuses NUL bytes
PwdContextHash(secret, salt) ==
    IF secret.nul
    THEN [raised |-> TRUE, value |-> Malformed]
    ELSE [raised |-> FALSE,
          value |-> BcryptString("current", salt,
                                 BcryptDigest(secret, salt, "current"))]

\* pwd_context.verify: "raise" when the hash is not identified as bcrypt or
\* the secret holds a NUL byte, else the comparison of the digests
PwdContextVerify(secret, stored) ==
    IF stored.scheme # "bcrypt" \/ secret.nul
    THEN "raise"
    ELSE IF stored.digest = BcryptDigest(secret, stored.salt, stored.cost)
         THEN "true"
         ELSE "false"

\* pwd_context.needs_update: the stored parameters are not the current ones
PwdContextNeedsUpdate(stored) == stored.cost # "current"

hash_password(plain_password, salt) == PwdContextHash(plain_password, salt)

\* the legacy checks a caller may pass; "none" is legacy_verify=None
LegacyChecks == {"none", "legacy_verify_example", "accept_all", "reject_all",
                 "raising"}

\* the call legacy_verify(plain, stored_hash)
LegacyVerify(legacy, plain, stored) ==
    CASE legacy = "legacy_verify_example" ->
           IF stored.scheme = "legacy"
           THEN (IF stored.plain = plain THEN "true" ELSE "false")
           ELSE "false"
      [] legacy = "accept_all" -> "true"
      [] legacy = "reject_all" -> "false"
      [] OTHER -> "raise"

CurrentSchemeUncaught(plain, stored) == PwdContextVerify(plain, stored)

\* step 1 of verify_password: try/except around pwd_context.verify
CurrentScheme(plain, stored) ==
    IF PwdContextVerify(plain, stored) = "raise"
    THEN "false"
    ELSE PwdContextVerify(plain, stored)

LegacyRehashUnset(legacy_ok) == FALSE

\* the rehash flag returned after a legacy match (return True, True)
LegacyRehash(legacy_ok) == legacy_ok

CurrentRehashNever(stored) == FALSE

\* the rehash flag returned after a current-scheme match
CurrentRehash(stored) == PwdContextNeedsUpdate(stored)

verify_password(plain_password, stored_hash, legacy_verify) ==
    LET cur == CurrentScheme(plain_password, stored_hash) IN
    IF cur = "raise"
    THEN [raised |-> TRUE, valid |-> FALSE, rehash |-> FALSE,
          legacyCalled |-> FALSE]
    ELSE IF cur = "true"
    THEN [raised |-> FALSE, valid |-> TRUE,
          rehash |-> CurrentRehash(stored_hash), legacyCalled |-> FALSE]
    ELSE IF legacy_verify # "none"
    THEN LET r == LegacyVerify(legacy_verify, plain_password, stored_hash)
             legacy_ok == IF r = "raise" THEN FALSE ELSE r = "true"
         IN  [raised |-> FALSE, valid |-> legacy_ok,
              rehash |-> LegacyRehash(legacy_ok), legacyCalled |-> TRUE]
    ELSE [raised |-> FALSE, valid |-> FALSE, rehash |-> FALSE,
          legacyCalled |-> FALSE]

NoCall == [op |-> "none"]

InitPassword ==
    /\ hashed = NoCall
    /\ verified = NoCall

\* a caller hashes a secret; the result is what it would store
HashPassword ==
    \E s \in Secrets, salt \in Salts :
        /\ hashed' = [op |-> "hash", secret |-> s,
                      out |-> hash_password(s, salt)]
        /\ UNCHANGED <<verified, now, settings, held, decoded, store>>

\* the stored values a caller may present: any stored value, among them the
\* one hash_password last returned
VerifyPassword ==
    \E s \in Secrets, st \in StoredValues, lg \in LegacyChecks :
        /\ verified' = [op |-> "verify", plain |-> s, stored |-> st,
                        legacy |-> lg, out |-> verify_password(s, st, lg)]
        /\ UNCHANGED <<hashed, now, settings, held, decoded, store>>


(***************************************************************************)
(* Tokens.  Time is counted in ticks, TicksPerSecond of them to a second,   *)
(* so that datetimes carry a fraction of a second as they do in the code.   *)
(***************************************************************************)
TicksPerSecond == 2

MaxTime == 4

MaxDelta == 2

Unset == ""

\* claim values as JSON sees them: an integer n, a string s, and (before
\* encoding only) a datetime of n ticks
IntVal(n) == [t |-> "int", s |-> "", n |-> n]

StrVal(s) == [t |-> "str", s |-> s, n |-> 0]

DateVal(ticks) == [t |-> "datetime", s |-> "", n |-> ticks]

Digit(d) ==
    CASE d = 0 -> "0" [] d = 1 -> "1" [] d = 2 -> "2" [] d = 3 -> "3"
      [] d = 4 -> "4" [] d = 5 -> "5" [] d = 6 -> "6" [] d = 7 -> "7"
      [] d = 8 -> "8" [] OTHER -> "9"

RECURSIVE IntToStr(_)
IntToStr(n) ==
    IF n < 0 THEN "-" \o IntToStr(0 - n)
    ELSE IF n < 10 THEN Digit(n)
    ELSE IntToStr(n \div 10) \o Digit(n % 10)

\* Python's str() on a claim value
Str(v) == IF v.t = "str" THEN v ELSE StrVal(IntToStr(v.n))

NoClaims == <<>>

\* the mappings a caller passes as `data`
SubChoices == {NoClaims, "sub" :> IntVal(42), "sub" :> StrVal("alice@example.com")}

ExtraChoices == {NoClaims, "user_id" :> IntVal(123), "jti" :> IntVal(5)}

DataChoices == {s @@ e : s \in SubChoices, e \in ExtraChoices}

\* expires_delta: None, or a timedelta of so many ticks
NoDelta == [given |-> FALSE, ticks |-> 0]

DeltaChoices == {NoDelta} \cup {[given |-> TRUE, ticks |-> d] : d \in 1..MaxDelta}

\* app.core.config.Settings with its defaults
DefaultSettings ==
    [SECRET_KEY |-> "change-me-in-prod-very-secret-and-long-string",
     ALGORITHM |-> "HS256",
     ACCESS_TOKEN_EXPIRE_MINUTES |-> 30,
     JWT_ISSUER |-> Unset,
     JWT_AUDIENCE |-> Unset]

\* the issuer/audience pairs the environment may configure
IssuerAudience ==
    {<<Unset, Unset>>, <<"issuer-a", Unset>>, <<"issuer-b", Unset>>,
     <<Unset, "aud-a">>, <<Unset, "aud-b">>}

\* timedelta(minutes=m) in ticks
Minutes(m) == m * 60 * TicksPerSecond

\* timegm(dt.utctimetuple()): whole seconds, the fraction dropped
Timegm(ticks) == ticks \div TicksPerSecond

\* the HMAC of the signing input under a key (an ideal MAC)
Hmac(key, alg, payload) == [key |-> key, alg |-> alg, msg |-> payload]

NoMac == [key |-> "", alg |-> "", msg |-> NoClaims]

\* base64url text of a signature: the bytes it decodes to (`mac`, `dmg` set
\* when characters were altered so that other bytes come out) and the low
\* bits of the last character that no byte uses (`spare`, zero when encoded)
Base64UrlEncode(mac) == [mac |-> mac, dmg |-> FALSE, spare |-> 0]

\* base64.urlsafe_b64decode: the unused bits of the last character are dropped
Base64UrlDecode(seg) == [mac |-> seg.mac, dmg |-> seg.dmg]

\* jws.sign: header.payload.signature
JwsSign(payload, key, alg) ==
    [form |-> "jws", alg |-> alg, payload |-> payload,
     sig |-> Base64UrlEncode(Hmac(key, alg, payload))]

\* a string that is not three base64url segments
Garbage ==
    [form |-> "garbage", alg |-> "", payload |-> NoClaims,
     sig |-> Base64UrlEncode(NoMac)]

\* jwt.encode: datetimes under exp, iat, nbf become integer timestamps
JwtEncode(claims, key, alg) ==
    LET conv == [k \in DOMAIN claims |->
                   IF k \in {"exp", "iat", "nbf"} /\ claims[k].t = "datetime"
                   THEN IntVal(Timegm(claims[k].n))
                   ELSE claims[k]]
    IN  JwsSign(conv, key, alg)

\* dict.update / item assignment: m overrides base
Update(base, m) == m @@ base

SubAsGiven(to_encode) == to_encode

\* "Make sure sub is string"
SubToStr(to_encode) ==
    IF "sub" \in DOMAIN to_encode
    THEN Update(to_encode, "sub" :> Str(to_encode["sub"]))
    ELSE to_encode

create_access_token(data, expires_delta, t, cfg) ==
    LET to_encode == SubToStr(data)
        delta == IF ~expires_delta.given
                 THEN Minutes(cfg.ACCESS_TOKEN_EXPIRE_MINUTES)
                 ELSE expires_delta.ticks
        expire == t + delta
        std == Update(to_encode, ("exp" :> DateVal(expire)) @@ ("iat" :> DateVal(t)))
        withIss == IF cfg.JWT_ISSUER # Unset
                   THEN Update(std, "iss" :> StrVal(cfg.JWT_ISSUER))
                   ELSE std
        withAud == IF cfg.JWT_AUDIENCE # Unset
                   THEN Update(withIss, "aud" :> StrVal(cfg.JWT_AUDIENCE))
                   ELSE withIss
    IN  JwtEncode(withAud, cfg.SECRET_KEY, cfg.ALGORITHM)


SignatureUnchecked(token, key) == TRUE

\* jws.verify: the decoded signature is the HMAC of the token's own header
\* and payload under the configured key
SignatureMatches(token, key) ==
    Base64UrlDecode(token.sig) =
        [mac |-> Hmac(key, token.alg, token.payload), dmg |-> FALSE]

\* jose.jwt.decode with options {"verify_aud": verify_aud}; `exc` names the
\* exception raised ("none": the claims are returned)
JwtDecode(token, key, algorithms, audience, issuer, verify_aud, t) ==
    LET claims == token.payload
        fail(e) == [exc |-> e, claims |-> NoClaims]
    IN
    IF token.form # "jws" THEN fail("JWTError")
    ELSE IF token.alg \notin algorithms THEN fail("JWTError")
    ELSE IF ~SignatureMatches(token, key) THEN fail("JWTError")
    ELSE IF "exp" \in DOMAIN claims /\ claims["exp"].n < Timegm(t)
         THEN fail("ExpiredSignatureError")
    ELSE IF verify_aud /\ "aud" \in DOMAIN claims
                       /\ claims["aud"] # StrVal(audience)
         THEN fail("JWTClaimsError")
    ELSE IF issuer # Unset /\ ("iss" \notin DOMAIN claims
                               \/ claims["iss"] # StrVal(issuer))
         THEN fail("JWTClaimsError")
    ELSE IF "sub" \in DOMAIN claims /\ claims["sub"].t # "str"
         THEN fail("JWTClaimsError")
    ELSE IF "jti" \in DOMAIN claims /\ claims["jti"].t # "str"
         THEN fail("JWTClaimsError")
    ELSE [exc |-> "none", claims |-> claims]

\* JWTError and its subclasses, as caught by `except JWTError`
JWTErrors == {"JWTError", "JWTClaimsError", "ExpiredSignatureError"}

IssuerArgNone(cfg) == Unset

\* issuer=settings.JWT_ISSUER if settings.JWT_ISSUER else None
IssuerArg(cfg) == cfg.JWT_ISSUER

decode_access_token(token, t, cfg) ==
    LET r == JwtDecode(token, cfg.SECRET_KEY, {cfg.ALGORITHM},
                       cfg.JWT_AUDIENCE, IssuerArg(cfg),
                       cfg.JWT_AUDIENCE # Unset, t)
    IN
    IF r.exc = "ExpiredSignatureError"
    THEN [raised |-> "TokenDecodeError", msg |-> "token expired",
          payload |-> NoClaims]
    ELSE IF r.exc \in JWTErrors
    THEN [raised |-> "TokenDecodeError", msg |-> "invalid token or claims",
          payload |-> NoClaims]
    ELSE IF r.exc # "none"
    THEN [raised |-> r.exc, msg |-> "", payload |-> NoClaims]
    ELSE [raised |-> "none", msg |-> "", payload |-> r.claims]

\* what a client may present in place of a token it was given: the token,
\* the token with its signature text altered (bytes changed, or only the
\* unused bits of the last character), with its payload altered under the
\* old signature, re-signed under another key, or no token at all
Presentable(token) ==
    {token,
     [token EXCEPT !.sig.dmg = TRUE],
     [token EXCEPT !.payload = Update(@, "sub" :> StrVal("1"))],
     JwsSign(token.payload, "another-key", token.alg),
     Garbage}
    \cup {[token EXCEPT !.sig.spare = b] : b \in 1..3}

(***************************************************************************)
(* Users and patient profiles (app/models.py) and the calls that read them. *)
(* A table is the set of its rows; a statement is atomic and a unique       *)
(* constraint is enforced when a row is inserted.                           *)
(***************************************************************************)
Emails == {"alice@example.com", "bob@example.com"}

Names == {"Ann", "Anna"}

\* None, where a user or a patient is expected
NoUser == [id |-> 0, email |-> "", hashed_password |-> Malformed]

NoPatient == [id |-> 0, user_id |-> 0, name |-> ""]

\* the account that exists from the start; its hash was made before the work
\* factor was raised and is kept as it is
InitUsers ==
    {[id |-> 42, email |-> "alice@example.com",
      hashed_password |->
          BcryptString("weaker", "salt1",
                       BcryptDigest([head |-> "pw-a", tail |-> "", nul |-> FALSE],
                                    "salt1", "weaker"))]}

\* query(...).filter(...).first()
First(rows) == IF rows = {} THEN {} ELSE {CHOOSE r \in rows : TRUE}

get_user_by_email(db_users, email) ==
    LET found == First({u \in db_users : u.email = email})
    IN  IF found = {} THEN NoUser ELSE CHOOSE u \in found : TRUE

get_user_by_id(db_users, user_id) ==
    LET found == First({u \in db_users : u.id = user_id})
    IN  IF found = {} THEN NoUser ELSE CHOOSE u \in found : TRUE

get_patient_by_user_id(db_patients, user_id) ==
    LET found == First({p \in db_patients : p.user_id = user_id})
    IN  IF found = {} THEN NoPatient ELSE CHOOSE p \in found : TRUE

list_patients(db_patients) == db_patients

\* the integer primary key the database gives a new row
NextId(rows) ==
    IF rows = {} THEN 1
    ELSE 1 + (CHOOSE m \in {r.id : r \in rows} : \A r \in rows : r.id <= m)

\* crud_user.create_user: the row that is added
create_user(db_users, email, hashed_password) ==
    [id |-> NextId(db_users), email |-> email,
     hashed_password |-> hashed_password]

\* crud.create_patient_profile: the row that is added
create_patient_profile(db_patients, name, user_id) ==
    [id |-> NextId(db_patients), user_id |-> user_id, name |-> name]

\* Patient.user_id is unique=True: an insert for a user that has a row fails
UniqueUserId(db_patients, user_id) ==
    \A p \in db_patients : p.user_id # user_id

\* crud.update_patient: only the fields that are provided are changed
update_patient(patient, name) ==
    IF name = "" THEN patient ELSE [patient EXCEPT !.name = name]

\* crud.delete_patient
delete_patient(db_patients, patient) == db_patients \ {patient}

(***************************************************************************)
(* Authentication backends (app/core/auth_backend.py).                      *)
(***************************************************************************)
CredentialsUnchecked(password, stored) == TRUE

\* valid, _ = security.verify_password(password, user.hashed_password)
CredentialsValid(password, stored) ==
    verify_password(password, stored, "none").valid

DatabaseAuthBackend(db_users, credentials) ==
    LET user == get_user_by_email(db_users, credentials.email) IN
    IF user = NoUser
    THEN [raised |-> "none", user |-> NoUser]
    ELSE IF ~CredentialsValid(credentials.password, user.hashed_password)
    THEN [raised |-> "none", user |-> NoUser]
    ELSE [raised |-> "none", user |-> user]

AzureB2CAuthBackend(db_users, credentials) ==
    [raised |-> "NotImplementedError", user |-> NoUser]

\* the backends a caller may pass; "none" is backend=None
Backends == {"none", "database", "azure_b2c"}

BackendAlwaysDatabase(backend) == "database"

\* "if backend is None: backend = DatabaseAuthBackend()"
SelectBackend(backend) == IF backend = "none" THEN "database" ELSE backend

authenticate(db_users, credentials, backend) ==
    IF SelectBackend(backend) = "database"
    THEN DatabaseAuthBackend(db_users, credentials)
    ELSE AzureB2CAuthBackend(db_users, credentials)

(***************************************************************************)
(* The bearer token of a request (app/core/dependencies.py).                *)
(***************************************************************************)
\* the decimal numerals int() is given here
Numerals == 0 .. 99

\* str(n) for each of them
NumeralText == [n \in Numerals |-> IntToStr(n)]

\* int(text) raises ValueError unless text is a numeral
IsNumeral(text) == \E n \in Numerals : NumeralText[n] = text

int(text) == CHOOSE n \in Numerals : NumeralText[n] = text

\* InvalidTokenError(detail): an HTTP 401
InvalidTokenError(detail) ==
    [raised |-> "InvalidTokenError", status |-> 401, detail |-> detail,
     user |-> NoUser]

get_current_user(token, t, cfg, db_users) ==
    LET d == decode_access_token(token, t, cfg) IN
    IF d.raised = "TokenDecodeError"
    THEN InvalidTokenError(d.msg)
    ELSE IF d.raised # "none"
    THEN [raised |-> d.raised, status |-> 500, detail |-> "", user |-> NoUser]
    ELSE IF "sub" \notin DOMAIN d.payload
    THEN InvalidTokenError("Token payload missing 'sub' claim")
    ELSE LET user_id == Str(d.payload["sub"]).s IN
         IF ~IsNumeral(user_id)
         THEN [raised |-> "ValueError", status |-> 500, detail |-> "",
               user |-> NoUser]
         ELSE LET user == get_user_by_id(db_users, int(user_id)) IN
              IF user = NoUser
              THEN InvalidTokenError("User not found")
              ELSE [raised |-> "none", status |-> 200, detail |-> "",
                    user |-> user]

\* the result of the dependency, with the patient of the current user
get_current_patient_or_409(token, t, cfg, db_users, db_patients) ==
    LET cu == get_current_user(token, t, cfg, db_users) IN
    IF cu.raised # "none"
    THEN [raised |-> cu.raised, status |-> cu.status, detail |-> cu.detail,
          user |-> NoUser, patient |-> NoPatient]
    ELSE LET patient == get_patient_by_user_id(db_patients, cu.user.id) IN
         IF patient = NoPatient
         THEN [raised |-> "HTTPException", status |-> 409,
               detail |-> "Patient profile not created yet for this user",
               user |-> cu.user, patient |-> NoPatient]
         ELSE [raised |-> "none", status |-> 200, detail |-> "",
               user |-> cu.user, patient |-> patient]

\* the requests that run create_patient_profile at the same time
Requests == {"r1", "r2"}

Idle == [pc |-> "idle", current_user |-> NoUser, name |-> ""]

InitStore ==
    /\ users = InitUsers
    /\ patients = {}
    /\ reqs = [r \in Requests |-> Idle]
    /\ resp = NoCall

InitToken ==
    /\ now = 0
    /\ settings = DefaultSettings
    /\ held = NoCall
    /\ decoded = NoCall

Init == InitPassword /\ InitToken /\ InitStore

CallerDataShared(data, written) == written

\* "to_encode = data.copy()": the caller's mapping, after every write went
\* to the copy
CallerData(data, written) == data

SettingsAfterCreateStamped(cfg) == [cfg EXCEPT !.JWT_ISSUER = "issuer-a"]

\* create_access_token reads settings.* and assigns none of its fields
SettingsAfterCreate(cfg) == cfg

\* what a call of create_access_token leaves behind for its caller
Issued(data, expires_delta, t, cfg) ==
    LET token == create_access_token(data, expires_delta, t, cfg) IN
    [op |-> "issue", data |-> data, expires_delta |-> expires_delta,
     at |-> t, settings |-> cfg, token |-> token,
     data_after |-> CallerData(data, token.payload)]

\* a caller is issued a token and holds on to it
CreateAccessToken ==
    \E data \in DataChoices, expires_delta \in DeltaChoices :
        /\ now <= MaxTime
        /\ held' = Issued(data, expires_delta, now, settings)
        /\ settings' = SettingsAfterCreate(settings)
        /\ decoded' = NoCall
        /\ UNCHANGED <<hashed, verified, now, store>>

\* a caller presents the token it holds, or something made from it
DecodeAccessToken ==
    /\ held # NoCall
    /\ \E token \in Presentable(held.token) :
        decoded' = [op |-> "decode", token |-> token,
                    out |-> decode_access_token(token, now, settings)]
    /\ UNCHANGED <<hashed, verified, now, settings, held, store>>

\* the clock moves on by a tick, or by the default token lifetime
AdvanceClock ==
    LET lifetime == Minutes(settings.ACCESS_TOKEN_EXPIRE_MINUTES) IN
    /\ \/ /\ now % lifetime < MaxTime
          /\ now' = now + 1
       \/ /\ now < lifetime
          /\ now' = now + lifetime
    /\ decoded' = NoCall
    /\ resp' = NoCall
    /\ UNCHANGED <<hashed, verified, settings, held, users, patients, reqs>>

\* the process is restarted with another issuer/audience in its environment
Reconfigure ==
    \E ia \in IssuerAudience :
        /\ <<settings.JWT_ISSUER, settings.JWT_AUDIENCE>> # ia
        /\ settings' = [settings EXCEPT !.JWT_ISSUER = ia[1],
                                        !.JWT_AUDIENCE = ia[2]]
        /\ decoded' = NoCall
        /\ UNCHANGED <<hashed, verified, now, held, store>>

UsersRehashed(db_users, user, password) ==
    IF verify_password(password, user.hashed_password, "none").rehash
    THEN (db_users \ {user})
         \cup {[user EXCEPT
                  !.hashed_password = hash_password(password, "salt2").value]}
    ELSE db_users

\* authenticate drops the rehash flag ("valid, _ = ...") and login stores
\* nothing: the users table after a login
UsersAfterLogin(db_users, user, password) == db_users

\* POST /auth/signup; hash_password is called once the email is known to be
\* free, and `hashed` keeps that call
Signup ==
    \E email \in Emails, password \in Secrets, salt \in Salts :
        LET existing == get_user_by_email(users, email)
            h == hash_password(password, salt)
            new_user == create_user(users, email, h.value)
        IN  /\ IF existing # NoUser
               THEN /\ resp' = [op |-> "signup", status |-> 400,
                                detail |-> "Email already registered",
                                user |-> NoUser]
                    /\ UNCHANGED <<users, hashed>>
               ELSE /\ hashed' = [op |-> "hash", secret |-> password,
                                  out |-> h]
                    /\ IF h.raised
                       THEN /\ resp' = [op |-> "signup", status |-> 500,
                                        detail |-> "", user |-> NoUser]
                            /\ users' = users
                       ELSE /\ resp' = [op |-> "signup", status |-> 200,
                                        detail |-> "", user |-> new_user]
                            /\ users' = users \cup {new_user}
            /\ UNCHANGED <<verified, now, settings, held, decoded,
                           patients, reqs>>

\* POST /auth/login; the client holds on to the token it is given
Login ==
    \E email \in Emails, password \in Secrets :
        LET credentials == [email |-> email, password |-> password]
            a == authenticate(users, credentials, "none")
            issued == Issued("sub" :> StrVal(IntToStr(a.user.id)), NoDelta,
                             now, settings)
        IN  /\ now <= MaxTime
            /\ IF a.user = NoUser
               THEN /\ resp' = [op |-> "login", credentials |-> credentials,
                                status |-> 401,
                                detail |-> "Invalid credentials",
                                access_token |-> Garbage]
                    /\ UNCHANGED <<held, settings>>
               ELSE /\ resp' = [op |-> "login", credentials |-> credentials,
                                status |-> 200, detail |-> "",
                                access_token |-> issued.token]
                    /\ held' = issued
                    /\ settings' = SettingsAfterCreate(settings)
            /\ users' = UsersAfterLogin(users, a.user, password)
            /\ decoded' = NoCall
            /\ UNCHANGED <<hashed, verified, now, patients, reqs>>

\* a direct call of the dispatcher, with or without a backend
Authenticate ==
    \E email \in Emails, password \in Secrets, backend \in Backends :
        LET credentials == [email |-> email, password |-> password] IN
        /\ resp' = [op |-> "authenticate", credentials |-> credentials,
                    backend |-> backend,
                    out |-> authenticate(users, credentials, backend)]
        /\ UNCHANGED <<hashed, verified, now, settings, held, decoded,
                       users, patients, reqs>>

\* a request whose only work is the get_current_user dependency
GetCurrentUser ==
    /\ held # NoCall
    /\ \E token \in Presentable(held.token) :
        resp' = [op |-> "get_current_user", token |-> token,
                 out |-> get_current_user(token, now, settings, users)]
    /\ UNCHANGED <<hashed, verified, now, settings, held, decoded,
                   users, patients, reqs>>

\* what a client of the patient routes sends as its bearer token: the token
\* it was given at login, or something that is no token
Bearers == IF held = NoCall THEN {Garbage} ELSE {held.token, Garbage}

\* a response of one of the patient routes; had_profile tells whether the
\* current user had a profile when the handler looked for it or wrote it
PatientResponse(op, status, detail, current_user, had_profile, body) ==
    [op |-> op, status |-> status, detail |-> detail,
     current_user |-> current_user, had_profile |-> had_profile,
     body |-> body]

\* POST /patients/ arrives: the get_current_user dependency runs
CreateBegin(r) ==
    \E token \in Bearers, name \in Names :
        \E cu \in {get_current_user(token, now, settings, users)} :
        /\ reqs[r].pc = "idle"
        /\ IF cu.raised # "none"
           THEN /\ resp' = PatientResponse("create_patient_profile",
                                           cu.status, cu.detail, NoUser,
                                           FALSE, NoPatient)
                /\ reqs' = reqs
           ELSE /\ resp' = NoCall
                /\ reqs' = [reqs EXCEPT ![r] =
                              [pc |-> "check", current_user |-> cu.user,
                               name |-> name]]
        /\ UNCHANGED <<hashed, verified, now, settings, held, decoded,
                       users, patients>>

\* "existing = crud.get_patient_by_user_id(...)": 409 when there is a profile
CreateCheck(r) ==
    LET rq == reqs[r]
        existing == get_patient_by_user_id(patients, rq.current_user.id)
    IN  /\ rq.pc = "check"
        /\ IF existing # NoPatient
           THEN /\ resp' = PatientResponse("create_patient_profile", 409,
                              "Patient profile already exists for this user",
                              rq.current_user, TRUE, NoPatient)
                /\ reqs' = [reqs EXCEPT ![r] = Idle]
           ELSE /\ resp' = NoCall
                /\ reqs' = [reqs EXCEPT ![r].pc = "insert"]
        /\ UNCHANGED <<hashed, verified, now, settings, held, decoded,
                       users, patients>>

\* crud.create_patient_profile: the insert is committed, or it fails on the
\* unique constraint and the IntegrityError leaves the handler
CreateInsert(r) ==
    LET rq == reqs[r]
        patient == create_patient_profile(patients, rq.name,
                                          rq.current_user.id)
    IN  /\ rq.pc = "insert"
        /\ IF UniqueUserId(patients, rq.current_user.id)
           THEN /\ patients' = patients \cup {patient}
                /\ resp' = PatientResponse("create_patient_profile", 201, "",
                                           rq.current_user, FALSE, patient)
           ELSE /\ patients' = patients
                /\ resp' = PatientResponse("create_patient_profile", 500,
                                           "IntegrityError", rq.current_user,
                                           TRUE, NoPatient)
        /\ reqs' = [reqs EXCEPT ![r] = Idle]
        /\ UNCHANGED <<hashed, verified, now, settings, held, decoded, users>>

\* GET /patients/me
ReadMe ==
    \E token \in Bearers :
        \E cp \in {get_current_patient_or_409(token, now, settings, users,
                                               patients)} :
        /\ resp' = PatientResponse("read_current_patient_profile", cp.status,
                                   cp.detail, cp.user, cp.patient # NoPatient,
                                   cp.patient)
        /\ UNCHANGED <<hashed, verified, now, settings, held, decoded,
                       users, patients, reqs>>

\* PATCH /patients/me; name "" stands for a payload without a name
UpdateMe ==
    \E token \in Bearers, name \in Names \cup {""} :
        \E cp \in {get_current_patient_or_409(token, now, settings, users,
                                               patients)} :
        LET updated == update_patient(cp.patient, name)
        IN  /\ IF cp.raised # "none"
               THEN /\ patients' = patients
                    /\ resp' = PatientResponse(
                                   "update_current_patient_profile",
                                   cp.status, cp.detail, cp.user, FALSE,
                                   NoPatient)
               ELSE /\ patients' = (patients \ {cp.patient}) \cup {updated}
                    /\ resp' = PatientResponse(
                                   "update_current_patient_profile", 200, "",
                                   cp.user, TRUE, updated)
            /\ UNCHANGED <<hashed, verified, now, settings, held, decoded,
                           users, reqs>>

UsersAfterDeleteCascade(db_users, patient) ==
    {u \in db_users : u.id # patient.user_id}

\* "User record remains; only profile is deleted."
UsersAfterDelete(db_users, patient) == db_users

\* DELETE /patients/me
DeleteMe ==
    \E token \in Bearers :
        \E cp \in {get_current_patient_or_409(token, now, settings, users,
                                               patients)} :
        /\ IF cp.raised # "none"
           THEN /\ UNCHANGED <<patients, users>>
                /\ resp' = PatientResponse(
                               "delete_current_patient_profile", cp.status,
                               cp.detail, cp.user, FALSE, NoPatient)
           ELSE /\ patients' = delete_patient(patients, cp.patient)
                /\ users' = UsersAfterDelete(users, cp.patient)
                /\ resp' = PatientResponse(
                               "delete_current_patient_profile", 204, "",
                               cp.user, TRUE, NoPatient)
        /\ UNCHANGED <<hashed, verified, now, settings, held, decoded, reqs>>

\* GET /patients/: the handler depends on get_db only
ListAll ==
    /\ resp' = PatientResponse("list_all_patients", 200, "", NoUser, FALSE,
                               list_patients(patients))
    /\ UNCHANGED <<hashed, verified, now, settings, held, decoded,
                   users, patients, reqs>>

NextPassword == HashPassword \/ VerifyPassword

NextToken == CreateAccessToken \/ DecodeAccessToken \/ AdvanceClock
             \/ Reconfigure

\* the functions of auth_backend.py and the auth router, and a bearer token
NextAuth == Signup \/ Login \/ Authenticate \/ GetCurrentUser \/ AdvanceClock

\* tokens of any payload at the get_current_user dependency
NextGate == CreateAccessToken \/ GetCurrentUser \/ AdvanceClock

\* a logged-in client and the patient routes
NextPatients ==
    \/ Login
    \/ GetCurrentUser
    \/ \E r \in Requests : CreateBegin(r)
    \/ \E r \in Requests : CreateCheck(r)
    \/ \E r \in Requests : CreateInsert(r)
    \/ ReadMe
    \/ UpdateMe
    \/ DeleteMe
    \/ ListAll
    \/ AdvanceClock

Next == NextPassword \/ NextToken \/ NextAuth \/ NextGate \/ NextPatients

SpecPassword == Init /\ [][NextPassword]_vars

SpecToken == Init /\ [][NextToken]_vars

SpecAuth == Init /\ [][NextAuth]_vars

SpecGate == Init /\ [][NextGate]_vars

SpecPatients == Init /\ [][NextPatients]_vars

Spec == Init /\ [][Next]_vars


(***************************************************************************)
(* Properties of verify_password and hash_password.                         *)
(***************************************************************************)
Outcome(valid, rehash) == [raised |-> FALSE, valid |-> valid, rehash |-> rehash]

Result(out) == [raised |-> out.raised, valid |-> out.valid, rehash |-> out.rehash]

\* C1: when the current scheme does not verify the secret against the stored
\* value (it says no, or it raises), the outcome is the legacy check's:
\* (True, True) when legacy_verify returns true, (False, False) when it
\* returns false.
C1_LegacyDecides ==
    (/\ verified.op = "verify"
     /\ verified.legacy # "none"
     /\ PwdContextVerify(verified.plain, verified.stored) # "true")
    => LET r == LegacyVerify(verified.legacy, verified.plain, verified.stored)
       IN  /\ r = "true" => Result(verified.out) = Outcome(TRUE, TRUE)
           /\ r = "false" => Result(verified.out) = Outcome(FALSE, FALSE)

\* a legacy-format stored value, on which the current scheme raises, matched
\* by the legacy check
C1_Witness ==
    /\ verified.op = "verify"
    /\ verified.legacy = "legacy_verify_example"
    /\ verified.stored = LegacyString(verified.plain)
    /\ PwdContextVerify(verified.plain, verified.stored) = "raise"
    /\ Result(verified.out) = Outcome(TRUE, TRUE)

\* C2: verify_password(s1, hash_password(s2)) without a legacy check is
\* (True, False) when s1 = s2 and (False, False) when s1 # s2.
C2_ValidIffSameSecret ==
    (/\ verified.op = "verify"
     /\ hashed.op = "hash"
     /\ ~hashed.out.raised
     /\ verified.stored = hashed.out.value
     /\ verified.legacy = "none")
    => Result(verified.out) =
          IF verified.plain = hashed.secret
          THEN Outcome(TRUE, FALSE)
          ELSE Outcome(FALSE, FALSE)

\* C3: when the current scheme verifies the secret, the outcome is
\* (True, needs_update(stored)), the legacy check is not called, and which
\* legacy check was passed makes no difference.
C3_CurrentSchemeDecides ==
    (/\ verified.op = "verify"
     /\ PwdContextVerify(verified.plain, verified.stored) = "true")
    => /\ Result(verified.out) =
             Outcome(TRUE, PwdContextNeedsUpdate(verified.stored))
       /\ ~verified.out.legacyCalled
       /\ \A lg \in LegacyChecks :
             Result(verify_password(verified.plain, verified.stored, lg))
                = Result(verified.out)

\* a match under the current scheme against a hash of weaker cost, with a
\* legacy check supplied that would have said no
C3_Witness ==
    /\ verified.op = "verify"
    /\ PwdContextVerify(verified.plain, verified.stored) = "true"
    /\ verified.stored.cost = "weaker"
    /\ verified.legacy = "reject_all"
    /\ Result(verified.out) = Outcome(TRUE, TRUE)

\* C4: verify_password never raises and returns a pair of booleans that is
\* never (False, True), whatever the secret, the stored value and the legacy
\* check do.
C4_TotalFailClosed ==
    verified.op = "verify"
    => /\ ~verified.out.raised
       /\ verified.out.valid \in BOOLEAN
       /\ verified.out.rehash \in BOOLEAN
       /\ ~(~verified.out.valid /\ verified.out.rehash)

\* both the current scheme and the legacy check raise
C4_Witness ==
    /\ verified.op = "verify"
    /\ PwdContextVerify(verified.plain, verified.stored) = "raise"
    /\ LegacyVerify(verified.legacy, verified.plain, verified.stored) = "raise"
    /\ verified.legacy = "raising"
    /\ Result(verified.out) = Outcome(FALSE, FALSE)

(***************************************************************************)
(* Properties of create_access_token and decode_access_token.               *)
(***************************************************************************)
\* the expiry a token carries, as an instant on the clock
ExpiryOf(token) == token.payload["exp"].n * TicksPerSecond

PastExpiry(token, t) == t > ExpiryOf(token)

Returned == decoded.out.raised = "none"

Rejected == decoded.out.raised = "TokenDecodeError"

\* the held token itself was presented, under the settings it was issued with
HeldDecoded ==
    /\ decoded.op = "decode"
    /\ decoded.token = held.token
    /\ held.settings = settings

\* the time to live the caller asked for, in ticks
RequestedTicks ==
    IF held.expires_delta.given
    THEN held.expires_delta.ticks
    ELSE 1800 * TicksPerSecond

\* the payload holds the caller's claims (sub as a string), exp and iat
CarriesData(payload) ==
    /\ \A k \in DOMAIN held.data :
          /\ k \in DOMAIN payload
          /\ payload[k] = IF k = "sub" THEN Str(held.data[k]) ELSE held.data[k]
    /\ {"exp", "iat"} \subseteq DOMAIN payload

\* the claim names the token library validates or the issuer overwrites
RegisteredNames == {"exp", "iat", "nbf", "iss", "aud", "jti", "at_hash"}

\* C5 as stated: for every claims mapping and every ttl, decoding the issued
\* token before its expiry returns the claims (sub as a string) plus exp and
\* iat with exp - iat equal to the ttl (1800 s by default).
C5_RoundTripAnyInput ==
    (HeldDecoded /\ ~PastExpiry(held.token, now))
    => /\ Returned
       /\ CarriesData(decoded.out.payload)
       /\ (decoded.out.payload["exp"].n - decoded.out.payload["iat"].n)
             * TicksPerSecond = RequestedTicks

\* C5 amended: the same for claims that use no registered claim name and a
\* ttl of whole seconds.
C5_RoundTrip ==
    (/\ HeldDecoded
     /\ ~PastExpiry(held.token, now)
     /\ DOMAIN held.data \cap RegisteredNames = {}
     /\ RequestedTicks % TicksPerSecond = 0)
    => /\ Returned
       /\ CarriesData(decoded.out.payload)
       /\ (decoded.out.payload["exp"].n - decoded.out.payload["iat"].n)
             * TicksPerSecond = RequestedTicks

\* {sub: 42} issued with the default ttl and decoded: sub = "42", 1800 s
C5_Witness ==
    /\ HeldDecoded
    /\ held.data = ("sub" :> IntVal(42))
    /\ ~held.expires_delta.given
    /\ Returned
    /\ decoded.out.payload["sub"] = StrVal("42")
    /\ decoded.out.payload["exp"].n - decoded.out.payload["iat"].n = 1800


\* the token carries the signature computed with the configured key and
\* algorithm over its own header and payload
CorrectlySigned(token) ==
    /\ token.form = "jws"
    /\ token.alg = settings.ALGORITHM
    /\ Base64UrlDecode(token.sig) =
          [mac |-> Hmac(settings.SECRET_KEY, settings.ALGORITHM, token.payload),
           dmg |-> FALSE]

\* the token carries the configured audience / issuer
AudMatches(token) ==
    /\ "aud" \in DOMAIN token.payload
    /\ token.payload["aud"] = StrVal(settings.JWT_AUDIENCE)

IssMatches(token) ==
    /\ "iss" \in DOMAIN token.payload
    /\ token.payload["iss"] = StrVal(settings.JWT_ISSUER)

\* sub and jti, where present, are strings
WellTyped(token) ==
    \A k \in {"sub", "jti"} \cap DOMAIN token.payload :
        token.payload[k].t = "str"

\* C6 as stated: under unchanged settings a token issued for ordinary claims
\* validates at every time not past its embedded expiry, is rejected with
\* TokenDecodeError at every time past it, and once rejected as expired is
\* never accepted again.
C6_Lifecycle ==
    /\ []((HeldDecoded /\ DOMAIN held.data \cap RegisteredNames = {})
            => IF PastExpiry(held.token, now) THEN Rejected ELSE Returned)
    /\ [][(/\ held.op = "issue"
           /\ held' = held
           /\ decode_access_token(held.token, now, settings).msg
                 = "token expired")
          => decode_access_token(held.token, now', settings').raised
                 = "TokenDecodeError"]_vars

\* C7 as stated: a token that differs from an issued one in a character of
\* its signature segment is rejected.
C7_AnySignatureCharacter ==
    (/\ decoded.op = "decode"
     /\ decoded.token.form = "jws"
     /\ decoded.token.alg = held.token.alg
     /\ decoded.token.payload = held.token.payload
     /\ decoded.token.sig # held.token.sig)
    => Rejected

\* C7 amended: a token whose signature segment does not decode to the
\* signature computed with the configured key and algorithm over its header
\* and payload is rejected with TokenDecodeError.
C7_SignatureRequired ==
    (decoded.op = "decode" /\ ~CorrectlySigned(decoded.token))
    => Rejected /\ decoded.out.payload = NoClaims

\* the held token, unexpired and otherwise acceptable, presented with the
\* bytes of its signature altered
C7_Witness ==
    /\ decoded.op = "decode"
    /\ decoded.token = [held.token EXCEPT !.sig.dmg = TRUE]
    /\ decode_access_token(held.token, now, settings).raised = "none"
    /\ Rejected

\* C8 as stated: with JWT_AUDIENCE configured, a correctly signed, unexpired
\* token that does not carry that audience (or carries none) is rejected;
\* with JWT_AUDIENCE not configured, aud is not looked at.
C8_AudienceEnforced ==
    (/\ decoded.op = "decode"
     /\ CorrectlySigned(decoded.token)
     /\ ~PastExpiry(decoded.token, now))
    => /\ (settings.JWT_AUDIENCE # Unset /\ ~AudMatches(decoded.token))
             => Rejected
       /\ (/\ settings.JWT_AUDIENCE = Unset
           /\ settings.JWT_ISSUER # Unset => IssMatches(decoded.token)
           /\ WellTyped(decoded.token))
             => Returned

\* C9: with JWT_ISSUER configured when the token is validated, a correctly
\* signed, unexpired token whose iss is absent or different is rejected,
\* whatever was configured when it was issued; with JWT_ISSUER not
\* configured, iss is not looked at.
C9_IssuerAtValidation ==
    (/\ decoded.op = "decode"
     /\ CorrectlySigned(decoded.token)
     /\ ~PastExpiry(decoded.token, now))
    => /\ (settings.JWT_ISSUER # Unset /\ ~IssMatches(decoded.token))
             => Rejected
       /\ (/\ settings.JWT_ISSUER = Unset
           /\ settings.JWT_AUDIENCE # Unset => AudMatches(decoded.token)
           /\ WellTyped(decoded.token))
             => Returned /\ decoded.out.payload = decoded.token.payload

\* a token issued while another issuer was configured, presented unexpired
\* and rejected
C9_Witness ==
    /\ decoded.op = "decode"
    /\ decoded.token = held.token
    /\ held.settings.JWT_ISSUER = "issuer-b"
    /\ settings.JWT_ISSUER = "issuer-a"
    /\ ~PastExpiry(held.token, now)
    /\ Rejected

\* C10 as stated: decode_access_token raises nothing but TokenDecodeError,
\* and a payload it returns is the payload of a token that is correctly
\* signed, not past its expiry, and carries the configured issuer and
\* audience.
C10_FailClosed ==
    decoded.op = "decode"
    => /\ decoded.out.raised \in {"none", "TokenDecodeError"}
       /\ ~Returned => decoded.out.payload = NoClaims
       /\ Returned =>
             /\ decoded.out.payload = decoded.token.payload
             /\ CorrectlySigned(decoded.token)
             /\ ~PastExpiry(decoded.token, now)
             /\ settings.JWT_ISSUER # Unset => IssMatches(decoded.token)
             /\ settings.JWT_AUDIENCE # Unset => AudMatches(decoded.token)


(***************************************************************************)
(* Properties of the authentication backends and of login.                  *)
(***************************************************************************)
\* a call that reached DatabaseAuthBackend.authenticate
DatabaseCalled ==
    /\ resp.op = "authenticate"
    /\ resp.backend \in {"none", "database"}

\* the records a login with these credentials may be answered with
Matching(credentials) ==
    {u \in users :
        /\ u.email = credentials.email
        /\ verify_password(credentials.password, u.hashed_password,
                           "none").valid}

\* C11: DatabaseAuthBackend.authenticate returns the user record exactly when
\* a record with the presented email exists and verify_password reports the
\* presented secret valid against its stored hash; in both other cases it
\* returns the one value None.
C11_IdentityIffValid ==
    DatabaseCalled
    => IF Matching(resp.credentials) # {}
       THEN /\ resp.out.raised = "none"
            /\ resp.out.user \in Matching(resp.credentials)
       ELSE resp.out = [raised |-> "none", user |-> NoUser]

\* a known email presented with a secret that does not verify
C11_Witness ==
    /\ DatabaseCalled
    /\ \E u \in users : u.email = resp.credentials.email
    /\ Matching(resp.credentials) = {}
    /\ resp.out.user = NoUser

(***************************************************************************)
(* Properties of tokens at the request boundary.                            *)
(***************************************************************************)
\* the token a login at instant t gives the user
LoginToken(user, t) ==
    create_access_token("sub" :> StrVal(IntToStr(user.id)), NoDelta, t,
                        settings)

\* the instants at which a login may have issued a token by now
IssueTimes == {t \in 0 .. MaxTime : t <= now}

\* C12: there is no revocation.  Under unchanged settings, whatever requests
\* were served in between (logins, newer tokens, creation, update and
\* deletion of the profile, rejected tokens), every token a login has issued
\* is decoded and resolved to its user at every instant before its expiry.
C12_NoRevocation ==
    /\ \A u \in InitUsers, t \in IssueTimes :
          now < ExpiryOf(LoginToken(u, t))
          => /\ decode_access_token(LoginToken(u, t), now,
                                    settings).raised = "none"
             /\ get_current_user(LoginToken(u, t), now, settings,
                                 users).user = u
    /\ (/\ resp.op = "get_current_user"
        /\ resp.token = held.token
        /\ now < ExpiryOf(held.token))
       => resp.out.raised = "none"

\* the profile has just been deleted with a token issued at an earlier
\* instant, and that token is still accepted
C12_Witness ==
    /\ resp.op = "delete_current_patient_profile"
    /\ resp.status = 204
    /\ held.at < now
    /\ get_current_user(held.token, now, settings, users).user
          = resp.current_user

\* get_current_user was given a token that validation rejects (expired, bad
\* signature, malformed, issuer or audience mismatch)
RejectedToken ==
    /\ resp.op = "get_current_user"
    /\ decode_access_token(resp.token, now, settings).raised
          = "TokenDecodeError"

\* C13 as stated: every token that validation rejects gets the same 401
\* response from get_current_user, the one a string that is no token at all
\* gets, so that an expired token cannot be told from an otherwise invalid
\* one.
C13_UniformRejection ==
    RejectedToken
    => /\ resp.out.status = 401
       /\ resp.out = get_current_user(Garbage, now, settings, users)

\* C14 as stated: get_current_user either returns the user whose id is the
\* token's sub claim or raises InvalidTokenError (401), whatever the sub
\* claim of a validly signed, unexpired token is; no other error escapes.
C14_TwoOutcomes ==
    resp.op = "get_current_user"
    => \/ /\ resp.out.raised = "none"
          /\ resp.out.user \in users
          /\ IntToStr(resp.out.user.id) = resp.token.payload["sub"].s
       \/ /\ resp.out.raised = "InvalidTokenError"
          /\ resp.out.status = 401

\* C15: authenticate is a transparent dispatcher: without a backend its
\* result is DatabaseAuthBackend's, with a backend that backend's, and the
\* Azure B2C backend raises NotImplementedError and returns no identity.
C15_TransparentDispatch ==
    resp.op = "authenticate"
    => /\ resp.backend \in {"none", "database"}
          => resp.out = DatabaseAuthBackend(users, resp.credentials)
       /\ resp.backend = "azure_b2c"
          => /\ resp.out = AzureB2CAuthBackend(users, resp.credentials)
             /\ resp.out.raised = "NotImplementedError"
             /\ resp.out.user = NoUser

\* the Azure B2C backend was selected with credentials the database backend
\* accepts
C15_Witness ==
    /\ resp.op = "authenticate"
    /\ resp.backend = "azure_b2c"
    /\ resp.out.raised = "NotImplementedError"
    /\ DatabaseAuthBackend(users, resp.credentials).user # NoUser

(***************************************************************************)
(* Properties of the patient routes.                                        *)
(***************************************************************************)
PatientRoutes ==
    {"create_patient_profile", "read_current_patient_profile",
     "update_current_patient_profile", "delete_current_patient_profile",
     "list_all_patients"}

\* the request was served: patient data was returned or changed
Served ==
    /\ resp.op \in PatientRoutes
    /\ resp.status \in {200, 201, 204}
    /\ resp.op = "list_all_patients" => resp.body # {}

\* C16 as stated: every route of the patients router requires an
\* authenticated user: a request that a patients endpoint serves (create,
\* read /me, update /me, delete /me, list all) presented a token that
\* get_current_user resolved to a user.
C16_EveryRouteAuthenticated ==
    Served => resp.current_user \in users

(***************************************************************************)
(* Properties of the state the authentication operations leave alone.       *)
(***************************************************************************)
\* C17: create_access_token never mutates the caller's claims mapping: after
\* the call it has the keys and values it had before (no exp, iat, iss or
\* aud added, sub not replaced by its string form).
C17_CallerMappingUntouched ==
    held.op = "issue" => held.data_after = held.data

\* a mapping with an integer sub went into a token that carries sub as a
\* string, exp, iat and iss
C17_Witness ==
    /\ held.op = "issue"
    /\ "sub" \in DOMAIN held.data
    /\ held.data["sub"].t = "int"
    /\ held.token.payload["sub"].t = "str"
    /\ {"exp", "iat", "iss"} \subseteq DOMAIN held.token.payload
    /\ held.data_after = held.data

\* C19: login never writes durable state: a login attempt, successful or
\* not and whatever rehash flag verify_password reports, and a call of
\* authenticate leave every user record, its hashed_password included, and
\* the set of user records as they were.
C19_LoginWritesNothing ==
    [][(Login \/ Authenticate) => users' = users]_vars

\* a login succeeded against a stored hash for which verify_password reports
\* that it should be rehashed, and the hash is still the stored one
C19_Witness ==
    /\ resp.op = "login"
    /\ resp.status = 200
    /\ \E u \in users :
          /\ u.email = resp.credentials.email
          /\ u.hashed_password.cost = "weaker"
          /\ verify_password(resp.credentials.password, u.hashed_password,
                             "none").rehash

ProfilesOf(user) == {p \in patients : p.user_id = user.id}

\* C20 as stated: under every interleaving of create requests (existence
\* check, then insert) and delete requests, a user has at most one Patient
\* row in every reachable state, and every create request that meets a
\* profile of its user is answered 409 Conflict and adds no row.
C20_SingleProfile ==
    /\ \A u \in users : Cardinality(ProfilesOf(u)) <= 1
    /\ (resp.op = "create_patient_profile" /\ resp.had_profile)
       => /\ resp.status = 409
          /\ resp.body = NoPatient

(***************************************************************************)
(* Properties of the path from signup over login to the current user.       *)
(***************************************************************************)
\* the users whose row signup made from the hash_password call that
\* `hashed` keeps, i.e. who signed up with the password hashed.secret
SignedUp ==
    IF hashed.op = "hash" /\ ~hashed.out.raised
    THEN {u \in users : u.hashed_password = hashed.out.value}
    ELSE {}

\* a login with the email of user u
LoginAs(u) == resp.op = "login" /\ resp.credentials.email = u.email

\* the token binds to u: its sub is str(u.id) and, before its expiry,
\* get_current_user resolves it to u
BoundTo(token, u) ==
    /\ token.payload["sub"] = StrVal(IntToStr(u.id))
    /\ now < ExpiryOf(token)
       => get_current_user(token, now, settings, users).user = u

\* C21 as stated: for every user u that signup created with email e and
\* password p, login with (e, p) yields a token whose sub is str(u.id) and
\* which get_current_user resolves to u at any time before its expiry, and
\* login with e and any other password yields no token.
C21_IdentityBinding ==
    \A u \in SignedUp :
        /\ (LoginAs(u) /\ resp.credentials.password = hashed.secret)
           => /\ resp.status = 200
              /\ BoundTo(resp.access_token, u)
        /\ (LoginAs(u) /\ resp.credentials.password # hashed.secret)
           => /\ resp.status = 401
              /\ resp.access_token = Garbage
        /\ (/\ resp.op = "get_current_user"
            /\ resp.token = held.token
            /\ held.data["sub"] = StrVal(IntToStr(u.id))
            /\ now < ExpiryOf(held.token))
           => resp.out.user = u

====
